---- MODULE Spec2Model ----
(***************************************************************************)
(* A model of markdown-toc: src/src/generator.py (MarkdownTOCGenerator)    *)
(* and src/src/cli.py (main).                                              *)
(*                                                                         *)
(* Text is modelled at the character level: a Python str is a sequence of  *)
(* one-character strings, a list of lines is a sequence of such sequences. *)
(* Indices are 0-based as in the source; At and Slice translate them.      *)
(***************************************************************************)
EXTENDS Integers, Sequences, FiniteSets, TLC

VARIABLES
    pc,                \* position of the run being modelled
    config,            \* the argument given to MarkdownTOCGenerator(config)
    markdown_content,  \* the text handed to generate_toc
    headers,           \* generate_toc's local `headers` of the first call
    toc_lines,         \* generate_toc's local `toc_lines` of the first call
    scanned,           \* lines[description_end:] of the first call
    updated_content,   \* the value returned by the first generate_toc call
    second_content,    \* the value returned by generate_toc(updated_content)
    header_text,       \* the argument given to _convert_to_link
    link,              \* the value returned by _convert_to_link
    args,              \* cli.main: the parsed command line
    fs,                \* cli.main: the file system the run sees
    exit_code,         \* cli.main: -1 while running, 0 or 1 once it ended
    written            \* cli.main: the text written to the output file

vars == <<pc, config, markdown_content, headers, toc_lines, scanned, updated_content,
          second_content, header_text, link, args, fs, exit_code, written>>

(***************************************************************************)
(* Bounds of the model.                                                    *)
(***************************************************************************)
MaxLines == 4
MaxTextLen == 3

(***************************************************************************)
(* Python str and list primitives.                                         *)
(***************************************************************************)
Whitespace == {" ", "\t", "\n", "\r"}

UpperCase == <<"A", "B", "C", "D", "E", "F", "G", "H", "I", "J", "K", "L", "M",
               "N", "O", "P", "Q", "R", "S", "T", "U", "V", "W", "X", "Y", "Z">>

LowerCase == <<"a", "b", "c", "d", "e", "f", "g", "h", "i", "j", "k", "l", "m",
               "n", "o", "p", "q", "r", "s", "t", "u", "v", "w", "x", "y", "z">>

Digits == <<"0", "1", "2", "3", "4", "5", "6", "7", "8", "9">>

Range(s) == {s[i] : i \in DOMAIN s}

Min(S) == CHOOSE x \in S : \A y \in S : x <= y

\* s[i] with a 0-based index
At(s, i) == s[i + 1]

\* s[a:b] for 0 <= a, 0 <= b
Slice(s, a, b) == SubSeq(s, a + 1, IF b < Len(s) THEN b ELSE Len(s))

\* s[a:]
SliceFrom(s, a) == Slice(s, a, Len(s))

\* str.startswith
startswith(s, prefix) ==
    /\ Len(s) >= Len(prefix)
    /\ SubSeq(s, 1, Len(prefix)) = prefix

RECURSIVE lstrip(_)
lstrip(s) ==
    IF s # <<>> /\ Head(s) \in Whitespace THEN lstrip(Tail(s)) ELSE s

RECURSIVE rstrip(_)
rstrip(s) ==
    IF s # <<>> /\ s[Len(s)] \in Whitespace
    THEN rstrip(SubSeq(s, 1, Len(s) - 1))
    ELSE s

\* str.strip()
strip(s) == rstrip(lstrip(s))

\* str.lower() on one character
lower_char(c) ==
    IF \E i \in DOMAIN UpperCase : UpperCase[i] = c
    THEN LowerCase[CHOOSE i \in DOMAIN UpperCase : UpperCase[i] = c]
    ELSE c

RECURSIVE lower(_)
lower(s) == IF s = <<>> THEN <<>> ELSE <<lower_char(Head(s))>> \o lower(Tail(s))

\* str.split('\n'): always at least one element
RECURSIVE split_from(_, _)
split_from(text, current) ==
    IF text = <<>> THEN <<current>>
    ELSE IF Head(text) = "\n" THEN <<current>> \o split_from(Tail(text), <<>>)
    ELSE split_from(Tail(text), Append(current, Head(text)))

split(text) == split_from(text, <<>>)

\* sep.join(items)
RECURSIVE join(_, _)
join(sep, items) ==
    IF items = <<>> THEN <<>>
    ELSE IF Len(items) = 1 THEN items[1]
    ELSE items[1] \o sep \o join(sep, Tail(items))

\* str(n) for n >= 0
RECURSIVE str(_)
str(n) ==
    IF n < 10 THEN <<Digits[n + 1]>>
    ELSE str(n \div 10) \o <<Digits[(n % 10) + 1]>>

(***************************************************************************)
(* The regular expressions of generator.py.                                *)
(***************************************************************************)
\* the number of leading '#' characters: what the greedy #+ consumes
RECURSIVE hashes(_)
hashes(line) ==
    IF line # <<>> /\ Head(line) = "#" THEN 1 + hashes(Tail(line)) ELSE 0

\* \w on ASCII text
IsWordChar(c) == c \in Range(UpperCase) \cup Range(LowerCase) \cup Range(Digits) \cup {"_"}

\* re.match(r'^#+\s', line)
match_header_prefix(line) ==
    /\ hashes(line) >= 1
    /\ Len(line) > hashes(line)
    /\ At(line, hashes(line)) \in Whitespace

\* re.match(r'^(#+)\s(.+)$', line), for a line that holds no newline
match_header(line) ==
    /\ match_header_prefix(line)
    /\ Len(line) > hashes(line) + 1

\* match.group(2) of match_header
header_group2(line) == SliceFrom(line, hashes(line) + 1)

(***************************************************************************)
(* MarkdownTOCGenerator.__init__                                           *)
(*                                                                         *)
(* A dict is a function from its keys.  The constructor's argument is      *)
(* None, a dict or (as cli.main passes it) a str.                          *)
(***************************************************************************)
TableOfContentsText ==
    <<"T", "a", "b", "l", "e", " ", "o", "f", " ", "C", "o", "n", "t", "e", "n", "t", "s">>

ContentsText == <<"C", "o", "n", "t", "e", "n", "t", "s">>

default_config ==
    [header_levels |-> <<2>>,
     toc_title |-> <<"#", "#", " ">> \o TableOfContentsText,
     indent_style |-> "github"]

NoneValue == [kind |-> "None"]
DictValue(d) == [kind |-> "dict", value |-> d]
StrValue(s) == [kind |-> "str", value |-> s]

\* Python truth value of None, a dict or a str
truthy(v) ==
    CASE v.kind = "None" -> FALSE
      [] v.kind = "dict" -> DOMAIN v.value # {}
      [] v.kind = "str" -> v.value # <<>>

\* dict.update(other): a mapping is merged key by key; any other iterable must
\* yield pairs, and the elements of a str are strings of length 1: ValueError
dict_update(d, other) ==
    CASE other.kind = "dict" ->
            [raised |-> FALSE,
             value |-> [k \in DOMAIN d \cup DOMAIN other.value |->
                           IF k \in DOMAIN other.value THEN other.value[k] ELSE d[k]]]
      [] other.kind = "str" ->
            [raised |-> other.value # <<>>, value |-> d]

\* MarkdownTOCGenerator(config): the resulting self.config, or the exception
init_generator(cfg) ==
    IF truthy(cfg) THEN dict_update(default_config, cfg)
    ELSE [raised |-> FALSE, value |-> default_config]

(***************************************************************************)
(* MarkdownTOCGenerator._convert_to_link                                   *)
(***************************************************************************)
\* a variant of sub_special with the class [^a-z0-9\s-]: the underscore goes too
RECURSIVE sub_special_no_underscore(_)
sub_special_no_underscore(s) ==
    IF s = <<>> THEN <<>>
    ELSE IF (IsWordChar(Head(s)) /\ Head(s) # "_") \/ Head(s) \in Whitespace \/ Head(s) = "-"
         THEN <<Head(s)>> \o sub_special_no_underscore(Tail(s))
         ELSE sub_special_no_underscore(Tail(s))

\* re.sub(r'[^\w\s-]', '', s)
RECURSIVE sub_special(_)
sub_special(s) ==
    IF s = <<>> THEN <<>>
    ELSE IF IsWordChar(Head(s)) \/ Head(s) \in Whitespace \/ Head(s) = "-"
         THEN <<Head(s)>> \o sub_special(Tail(s))
         ELSE sub_special(Tail(s))

\* re.sub(r'\s+', '-', s)
RECURSIVE sub_spaces(_)
sub_spaces(s) ==
    IF s = <<>> THEN <<>>
    ELSE IF Head(s) \in Whitespace
         THEN <<"-">> \o sub_spaces(lstrip(s))
         ELSE <<Head(s)>> \o sub_spaces(Tail(s))

convert_to_link(text) == sub_spaces(sub_special(lower(text)))

(***************************************************************************)
(* MarkdownTOCGenerator._generate_toc                                      *)
(* A header is the tuple <<indent, number, text, link>>.                   *)
(***************************************************************************)
link_text(text, target) == <<"[">> \o text \o <<"]", "(", "#">> \o target \o <<")">>

\* the line of one header in the 'github' format
github_line(h) ==
    IF h[1] = 0
    THEN str(h[2]) \o <<".", " ">> \o link_text(h[3], h[4])
    ELSE <<" ", " ", " ", "-", " ">> \o link_text(h[3], h[4])

\* current_section after a header of depth indent
bump_section(current_section, indent) ==
    [i \in DOMAIN current_section |->
        IF i - 1 = indent THEN current_section[i] + 1
        ELSE IF i - 1 > indent THEN 0
        ELSE current_section[i]]

RECURSIVE nonzero_strs(_)
nonzero_strs(nums) ==
    IF nums = <<>> THEN <<>>
    ELSE IF Head(nums) # 0 THEN <<str(Head(nums))>> \o nonzero_strs(Tail(nums))
    ELSE nonzero_strs(Tail(nums))

RECURSIVE spaces(_)
spaces(n) == IF n = 0 THEN <<>> ELSE <<" ">> \o spaces(n - 1)

\* the line of one header in the nested format, current_section already updated
nested_line(h, current_section) ==
    spaces(4 * h[1])
        \o join(<<".">>, nonzero_strs(Slice(current_section, 0, h[1] + 1)))
        \o <<".", " ">> \o link_text(h[3], h[4])

RECURSIVE nested_lines(_, _)
nested_lines(hs, current_section) ==
    IF hs = <<>> THEN <<>>
    ELSE LET section == bump_section(current_section, Head(hs)[1])
         IN  <<nested_line(Head(hs), section)>> \o nested_lines(Tail(hs), section)

RECURSIVE github_lines(_)
github_lines(hs) ==
    IF hs = <<>> THEN <<>> ELSE <<github_line(Head(hs))>> \o github_lines(Tail(hs))

generate_toc_text(hs, cfg) ==
    join(<<"\n">>,
         <<cfg["toc_title"]>> \o
            (IF cfg["indent_style"] = "github"
             THEN github_lines(hs)
             ELSE nested_lines(hs, <<0, 0, 0, 0, 0, 0>>)))

(***************************************************************************)
(* MarkdownTOCGenerator.generate_toc                                       *)
(***************************************************************************)
TocTitles ==
    {<<"#", "#", " ">> \o TableOfContentsText, <<"#", "#", " ">> \o ContentsText}

\* line.startswith('# ') and not line.startswith('## ')
is_h1(line) ==
    /\ startswith(line, <<"#", " ">>)
    /\ ~startswith(line, <<"#", "#", " ">>)

\* next(i for i, line in enumerate(lines) if is_h1(line)), default -1; then the
\* fallback to 0
find_h1_index(lines) ==
    LET found == {i \in 0..(Len(lines) - 1) : is_h1(At(lines, i))}
        h1_index == IF found = {} THEN -1 ELSE Min(found)
    IN  IF h1_index = -1 THEN 0 ELSE h1_index

\* the inner while loop: the index j at which the stale TOC ends
RECURSIVE toc_end(_, _)
toc_end(lines, j) ==
    IF j < Len(lines)
    THEN IF \/ match_header_prefix(At(lines, j))
            \/ /\ j + 1 < Len(lines)
               /\ strip(At(lines, j)) = <<>>
               /\ match_header_prefix(At(lines, j + 1))
         THEN j
         ELSE toc_end(lines, j + 1)
    ELSE j

\* a variant of remove_tocs that goes on at i + 1 after a deletion instead of
\* starting over
RECURSIVE remove_tocs_no_restart(_, _)
remove_tocs_no_restart(lines, i) ==
    IF i < Len(lines)
    THEN IF \E title \in TocTitles : strip(At(lines, i)) = title
         THEN remove_tocs_no_restart(
                  Slice(lines, 0, i) \o SliceFrom(lines, toc_end(lines, i + 1)), i + 1)
         ELSE remove_tocs_no_restart(lines, i + 1)
    ELSE lines

\* the outer while loop: lines with every stale TOC section removed
RECURSIVE remove_tocs(_, _)
remove_tocs(lines, i) ==
    IF i < Len(lines)
    THEN IF \E title \in TocTitles : strip(At(lines, i)) = title
         THEN remove_tocs(Slice(lines, 0, i) \o SliceFrom(lines, toc_end(lines, i + 1)), 0)
         ELSE remove_tocs(lines, i + 1)
    ELSE lines

\* next(i for i in range(h1_index + 1, len(lines)) if header), default h1_index + 1
find_description_end(lines, h1_index) ==
    LET found == {i \in (h1_index + 1)..(Len(lines) - 1) : match_header_prefix(At(lines, i))}
    IN  IF found = {} THEN h1_index + 1 ELSE Min(found)

\* the clean-up loop; lines[description_end - 1] raises IndexError past the end
RECURSIVE trim_description_end(_, _)
trim_description_end(lines, description_end) ==
    IF description_end > 0
    THEN IF description_end - 1 >= Len(lines)
         THEN [raised |-> TRUE, value |-> description_end]
         ELSE IF strip(At(lines, description_end - 1)) = <<>>
              THEN trim_description_end(lines, description_end - 1)
              ELSE [raised |-> FALSE, value |-> description_end]
    ELSE [raised |-> FALSE, value |-> description_end]

\* next(i for i in range(description_end + 1, len(lines)) if header), default len(lines)
find_content_start(lines, description_end) ==
    LET found == {i \in (description_end + 1)..(Len(lines) - 1) : match_header_prefix(At(lines, i))}
    IN  IF found = {} THEN Len(lines) ELSE Min(found)

\* x in list
contains(list, x) == \E i \in DOMAIN list : list[i] = x

\* the condition of line 137
is_collected(line, cfg) ==
    /\ contains(cfg["header_levels"], hashes(line))
    /\ strip(header_group2(line)) # TableOfContentsText
    /\ strip(header_group2(line)) # ContentsText

\* a variant of collect_headers without the `and current_h2` test of line 142
RECURSIVE collect_headers_unfiltered(_, _, _, _, _, _)
collect_headers_unfiltered(lines, i, hs, current_h2, counter, cfg) ==
    IF i >= Len(lines) THEN hs
    ELSE LET line == At(lines, i)
             text == header_group2(line)
             target == convert_to_link(text)
         IN  IF match_header(line) /\ is_collected(line, cfg) /\ hashes(line) \in {2, 3}
             THEN collect_headers_unfiltered(
                      lines, i + 1,
                      Append(hs, <<IF hashes(line) = 2 THEN 0 ELSE 1, counter, text, target>>),
                      current_h2, counter + 1, cfg)
             ELSE collect_headers_unfiltered(lines, i + 1, hs, current_h2, counter, cfg)

\* the for loop of lines 130-144 from index i on; current_h2 is <<>> for None
RECURSIVE collect_headers(_, _, _, _, _, _)
collect_headers(lines, i, hs, current_h2, counter, cfg) ==
    IF i >= Len(lines) THEN hs
    ELSE LET line == At(lines, i)
             text == header_group2(line)
             target == convert_to_link(text)
         IN  IF match_header(line) /\ is_collected(line, cfg)
             THEN IF hashes(line) = 2
                  THEN collect_headers(lines, i + 1, Append(hs, <<0, counter, text, target>>),
                                       <<text, target>>, counter + 1, cfg)
                  ELSE IF hashes(line) = 3 /\ current_h2 # <<>>
                       THEN collect_headers(lines, i + 1, Append(hs, <<1, counter, text, target>>),
                                            current_h2, counter + 1, cfg)
                       ELSE collect_headers(lines, i + 1, hs, current_h2, counter, cfg)
             ELSE collect_headers(lines, i + 1, hs, current_h2, counter, cfg)

\* a variant of remove_consecutive_blank that compares with '' instead of
\* stripping: whitespace-only lines are not taken as blank
RECURSIVE remove_consecutive_empty(_, _)
remove_consecutive_empty(result, i) ==
    IF i < Len(result) - 1
    THEN IF At(result, i) = <<>> /\ At(result, i + 1) = <<>>
         THEN remove_consecutive_empty(Slice(result, 0, i) \o SliceFrom(result, i + 1), i)
         ELSE remove_consecutive_empty(result, i + 1)
    ELSE result

\* the final while loop: drop the first of two adjacent blank lines
RECURSIVE remove_consecutive_blank(_, _)
remove_consecutive_blank(result, i) ==
    IF i < Len(result) - 1
    THEN IF strip(At(result, i)) = <<>> /\ strip(At(result, i + 1)) = <<>>
         THEN remove_consecutive_blank(Slice(result, 0, i) \o SliceFrom(result, i + 1), i)
         ELSE remove_consecutive_blank(result, i + 1)
    ELSE result

\* lines 149-155
assemble(lines, description_end, content_start, toc) ==
    Slice(lines, 0, description_end) \o <<<<>>>> \o split(toc) \o <<<<>>>>
        \o SliceFrom(lines, content_start)

\* one call of generate_toc under self.config = cfg: its locals and its outcome
generate_toc_run(content, cfg) ==
    LET lines0 == split(content)
        h1_index == find_h1_index(lines0)
        lines == remove_tocs(lines0, 0)
        trimmed == trim_description_end(lines, find_description_end(lines, h1_index))
        description_end == trimmed.value
        content_start == find_content_start(lines, description_end)
        hs == collect_headers(lines, description_end, <<>>, <<>>, 1, cfg)
        toc == generate_toc_text(hs, cfg)
        result == assemble(lines, description_end, content_start, toc)
    IN  IF trimmed.raised
        THEN [raised |-> TRUE, headers |-> <<>>, toc_lines |-> <<>>, scanned |-> <<>>,
              value |-> <<>>]
        ELSE [raised |-> FALSE, headers |-> hs, toc_lines |-> toc,
              scanned |-> SliceFrom(lines, description_end),
              value |-> join(<<"\n">>, remove_consecutive_blank(result, 0))]

(***************************************************************************)
(* The library run: MarkdownTOCGenerator(config).generate_toc(text), then  *)
(* generate_toc again on what it returned.                                 *)
(***************************************************************************)
BlankLine == <<>>
TitleLine == <<"#", " ", "T">>
H2Line == <<"#", "#", " ", "A">>
H3Line == <<"#", "#", "#", " ", "B">>
TextLine == <<"x">>
WhitespaceLine == <<" ">>
StaleTocLine == <<"#", "#", " ">> \o ContentsText
IndexTitle == <<"#", "#", " ", "I", "n", "d", "e", "x">>

\* the lines documents are built from
Vocabulary == {BlankLine, WhitespaceLine, TitleLine, H2Line, H3Line, TextLine, StaleTocLine}

Documents == UNION {[1..n -> Vocabulary] : n \in 1..MaxLines}

\* the constructor arguments tried
Configs ==
    <<NoneValue,
      DictValue([header_levels |-> <<2, 3>>]),
      DictValue([header_levels |-> <<2, 3>>, indent_style |-> "nested"]),
      DictValue([toc_title |-> IndexTitle])>>

Idle == <<>>

InitCli == args = Idle /\ fs = Idle /\ exit_code = -1 /\ written = Idle
InitSlug == header_text = Idle /\ link = Idle

Init ==
    /\ pc = "start"
    /\ \E i \in DOMAIN Configs : config = Configs[i]
    /\ \E doc \in Documents : markdown_content = join(<<"\n">>, doc)
    /\ headers = <<>>
    /\ toc_lines = <<>>
    /\ scanned = <<>>
    /\ updated_content = <<>>
    /\ second_content = <<>>
    /\ InitSlug
    /\ InitCli

\* toc_generator = MarkdownTOCGenerator(config); toc_generator.generate_toc(text)
Generate ==
    /\ pc = "start"
    /\ LET run == generate_toc_run(markdown_content, init_generator(config).value)
       IN  /\ pc' = IF run.raised THEN "raised" ELSE "generated"
           /\ headers' = run.headers
           /\ toc_lines' = run.toc_lines
           /\ scanned' = run.scanned
           /\ updated_content' = run.value
    /\ UNCHANGED <<config, markdown_content, second_content, header_text, link,
                   args, fs, exit_code, written>>

\* toc_generator.generate_toc(updated_content), same generator
Regenerate ==
    /\ pc = "generated"
    /\ LET run == generate_toc_run(updated_content, init_generator(config).value)
       IN  /\ pc' = IF run.raised THEN "raised_again" ELSE "regenerated"
           /\ second_content' = run.value
    /\ UNCHANGED <<config, markdown_content, headers, toc_lines, scanned, updated_content,
                   header_text, link, args, fs, exit_code, written>>

Next == Generate \/ Regenerate

Spec == Init /\ [][Next]_vars

(***************************************************************************)
(* _convert_to_link on its own: header texts over a small alphabet holding *)
(* every class of character the two substitutions tell apart.              *)
(***************************************************************************)
SlugAlphabet == {"A", "b", "Z", "1", "_", "-", " ", "\t", "&", "!"}

HeaderTexts == UNION {[1..n -> SlugAlphabet] : n \in 1..MaxTextLen}

InitLibraryIdle ==
    /\ config = Idle
    /\ markdown_content = Idle
    /\ headers = <<>>
    /\ toc_lines = <<>>
    /\ scanned = <<>>
    /\ updated_content = <<>>
    /\ second_content = <<>>

InitLink ==
    /\ pc = "link_start"
    /\ header_text \in HeaderTexts
    /\ link = Idle
    /\ InitLibraryIdle
    /\ InitCli

\* link = self._convert_to_link(header_text)
ConvertToLink ==
    /\ pc = "link_start"
    /\ link' = convert_to_link(header_text)
    /\ pc' = "link_done"
    /\ UNCHANGED <<config, markdown_content, headers, toc_lines, scanned, updated_content,
                   second_content, header_text, args, fs, exit_code, written>>

NextLink == ConvertToLink

SpecLink == InitLink /\ [][NextLink]_vars

(***************************************************************************)
(* cli.main, one action per step of the function.                          *)
(***************************************************************************)
NoPath == "None"

\* the texts the input file may hold
FileContents ==
    {join(<<"\n">>, <<TitleLine, BlankLine, H2Line, TextLine>>),
     join(<<"\n">>, <<TitleLine, BlankLine, TextLine, BlankLine, H2Line, H3Line>>),
     join(<<"\n">>, <<TextLine>>),
     join(<<"\n">>, <<StaleTocLine>>)}

\* args.config: absent, -c '' or -c config.yaml
ConfigArgs == <<NoneValue, StrValue(<<>>), StrValue(<<"c", ".", "y", "a", "m", "l">>)>>

\* find_readme(): the first of the README.md / readme.md candidates, or None
find_readme(files) ==
    IF files.readme_candidates # <<>> THEN files.readme_candidates[1] ELSE NoPath

\* Path.exists() of the resolved input file
exists(files, path) ==
    IF \E i \in DOMAIN files.readme_candidates : files.readme_candidates[i] = path
    THEN TRUE
    ELSE files.input_exists

InitMain ==
    /\ pc = "resolve_input"
    /\ \E input_file \in {NoPath, "in.md"}, output \in {NoPath, "out.md"},
          c \in DOMAIN ConfigArgs :
          args = [input_file |-> input_file, config |-> ConfigArgs[c], output |-> output]
    /\ \E candidates \in {<<>>, <<"README.md">>, <<"README.md", "readme.md">>},
          input_exists \in BOOLEAN, input_readable \in BOOLEAN,
          config_file \in {"present", "absent", "unparsable"},
          output_writable \in BOOLEAN, content \in FileContents :
          fs = [readme_candidates |-> candidates, input_exists |-> input_exists,
                input_readable |-> input_readable, config_file |-> config_file,
                output_writable |-> output_writable, content |-> content]
    /\ exit_code = -1
    /\ written = Idle
    /\ InitLibraryIdle
    /\ InitSlug

\* lines 63-72
ResolveInput ==
    /\ pc = "resolve_input"
    /\ IF args.input_file = NoPath
       THEN IF find_readme(fs) = NoPath
            THEN /\ pc' = "exited"
                 /\ exit_code' = 1
                 /\ UNCHANGED args
            ELSE /\ pc' = "validate_input"
                 /\ args' = [args EXCEPT !.input_file = find_readme(fs)]
                 /\ UNCHANGED exit_code
       ELSE /\ pc' = "validate_input"
            /\ UNCHANGED <<args, exit_code>>
    /\ UNCHANGED <<config, markdown_content, headers, toc_lines, scanned, updated_content,
                   second_content, header_text, link, fs, written>>

\* lines 74-77
ValidateInput ==
    /\ pc = "validate_input"
    /\ IF ~exists(fs, args.input_file)
       THEN pc' = "exited" /\ exit_code' = 1
       ELSE pc' = "read_input" /\ UNCHANGED exit_code
    /\ UNCHANGED <<config, markdown_content, headers, toc_lines, scanned, updated_content,
                   second_content, header_text, link, args, fs, written>>

\* lines 79-85
ReadInput ==
    /\ pc = "read_input"
    /\ IF fs.input_readable
       THEN /\ markdown_content' = fs.content
            /\ pc' = "generate"
            /\ UNCHANGED exit_code
       ELSE /\ pc' = "exited"
            /\ exit_code' = 1
            /\ UNCHANGED markdown_content
    /\ UNCHANGED <<config, headers, toc_lines, scanned, updated_content,
                   second_content, header_text, link, args, fs, written>>

\* lines 87-93: any exception of the constructor or of generate_toc ends the run
GenerateToc ==
    /\ pc = "generate"
    /\ LET toc_generator == init_generator(args.config)
           run == generate_toc_run(markdown_content, toc_generator.value)
       IN  IF toc_generator.raised \/ run.raised
           THEN /\ pc' = "exited"
                /\ exit_code' = 1
                /\ UNCHANGED <<config, headers, toc_lines, scanned, updated_content>>
           ELSE /\ pc' = "write_output"
                /\ config' = toc_generator.value
                /\ headers' = run.headers
                /\ toc_lines' = run.toc_lines
                /\ scanned' = run.scanned
                /\ updated_content' = run.value
                /\ UNCHANGED exit_code
    /\ UNCHANGED <<markdown_content, second_content, header_text, link, args, fs, written>>

\* lines 95-103; falling off the end of main is exit status 0
WriteOutput ==
    /\ pc = "write_output"
    /\ IF fs.output_writable
       THEN /\ written' = [file |-> IF args.output # NoPath THEN args.output ELSE args.input_file,
                           text |-> updated_content]
            /\ pc' = "exited"
            /\ exit_code' = 0
       ELSE /\ pc' = "exited"
            /\ exit_code' = 1
            /\ UNCHANGED written
    /\ UNCHANGED <<config, markdown_content, headers, toc_lines, scanned, updated_content,
                   second_content, header_text, link, args, fs>>

NextMain == ResolveInput \/ ValidateInput \/ ReadInput \/ GenerateToc \/ WriteOutput

SpecMain == InitMain /\ [][NextMain]_vars

(***************************************************************************)
(* Vocabulary of the properties.                                           *)
(***************************************************************************)
InputLines == split(markdown_content)
OutputLines == split(updated_content)
EffectiveConfig == init_generator(config).value

IsBlank(line) == strip(line) = <<>>
IsReservedTitle(line) == strip(line) \in TocTitles
AdjacentBlank(ls, i) == IsBlank(ls[i]) /\ IsBlank(ls[i + 1])

\* a header line of the given level that the configuration asks to list
IsEntryLine(line, level) ==
    /\ match_header(line)
    /\ hashes(line) = level
    /\ contains(EffectiveConfig["header_levels"], level)
    /\ strip(header_group2(line)) \notin {TableOfContentsText, ContentsText}

\* a section heading: a header line other than a reserved TOC heading
IsSection(line) == match_header(line) /\ ~IsReservedTitle(line)

RECURSIVE IsSubsequence(_, _)
IsSubsequence(a, b) ==
    IF a = <<>> THEN TRUE
    ELSE IF b = <<>> THEN FALSE
    ELSE IF Head(a) = Head(b) THEN IsSubsequence(Tail(a), Tail(b))
    ELSE IsSubsequence(a, Tail(b))

(***************************************************************************)
(* C1  Idempotence: generate_toc applied to the output of generate_toc,    *)
(* same configuration, returns exactly that output again.                  *)
(***************************************************************************)
C1_Idempotent == pc = "regenerated" => second_content = updated_content

(***************************************************************************)
(* C2  Totality: generate_toc returns a string for every document text and *)
(* never raises, also when a stale TOC block precedes the title line.      *)
(***************************************************************************)
C2_NeverRaises == pc \notin {"raised", "raised_again"}

(***************************************************************************)
(* C3  The output holds at most one line whose trimmed text is a reserved  *)
(* TOC heading literal, however many stale TOC blocks the input held.      *)
(***************************************************************************)
ReservedCount(ls) == Cardinality({i \in DOMAIN ls : IsReservedTitle(ls[i])})

C3_AtMostOneTocTitle == pc = "generated" => ReservedCount(OutputLines) <= 1

\* a document with several stale TOC headings was regenerated with one
C3_Witness ==
    /\ pc = "generated"
    /\ ReservedCount(InputLines) >= 2
    /\ ReservedCount(OutputLines) = 1

(***************************************************************************)
(* C4  The output holds no two adjacent lines that are both blank (empty   *)
(* or whitespace-only).                                                    *)
(***************************************************************************)
C4_NoConsecutiveBlank ==
    pc = "generated" =>
        \A i \in 1..(Len(OutputLines) - 1) : ~AdjacentBlank(OutputLines, i)

\* the body kept after the TOC held two adjacent blank lines, one of them
\* whitespace-only
C4_Witness ==
    /\ pc = "generated"
    /\ \E i \in 1..(Len(scanned) - 1) :
          /\ AdjacentBlank(scanned, i)
          /\ scanned[i] # <<>> \/ scanned[i + 1] # <<>>
          /\ \E j \in 2..(i - 1) : match_header_prefix(scanned[j])

(***************************************************************************)
(* C5  Depth filtering: a level-3 header met before any collected level-2  *)
(* header of the scanned region gives no TOC entry; every depth-1 entry of *)
(* the collected list is preceded by a depth-0 entry.                      *)
(***************************************************************************)
HasParent(i) == \E j \in 1..(i - 1) : IsEntryLine(scanned[j], 2)

C5_DepthFiltering ==
    pc = "generated" =>
        /\ \A k \in DOMAIN headers :
              headers[k][1] = 1 => \E j \in 1..(k - 1) : headers[j][1] = 0
        /\ Cardinality({k \in DOMAIN headers : headers[k][1] = 1})
              = Cardinality({i \in DOMAIN scanned : IsEntryLine(scanned[i], 3) /\ HasParent(i)})

\* a level-3 header without a parent was dropped and one with a parent listed
C5_Witness ==
    /\ pc = "generated"
    /\ \E i \in DOMAIN scanned : IsEntryLine(scanned[i], 3) /\ ~HasParent(i)
    /\ \E k \in DOMAIN headers : headers[k][1] = 1

(***************************************************************************)
(* C6  The link slug: the text lowercased, every character outside the     *)
(* kept classes deleted, every run of whitespace replaced by one hyphen.   *)
(***************************************************************************)
Letters == Range(UpperCase) \cup Range(LowerCase)

\* the rule, with `extra` the characters kept besides letters, digits,
\* whitespace and hyphen
SlugByRule(text, extra) ==
    LET kept == SelectSeq(lower(text),
                          LAMBDA c : c \in Letters \cup Range(Digits) \cup Whitespace \cup {"-"} \cup extra)
        starts == SelectSeq([i \in 1..Len(kept) |-> i],
                            LAMBDA i : kept[i] \notin Whitespace \/ i = 1 \/ kept[i - 1] \notin Whitespace)
    IN  [k \in 1..Len(starts) |->
            IF kept[starts[k]] \in Whitespace THEN "-" ELSE kept[starts[k]]]

\* C6 as stated: underscores are deleted, the slug holds only lowercase
\* letters, digits and hyphens
C6_SlugAsStated ==
    pc = "link_done" =>
        /\ link = SlugByRule(header_text, {})
        /\ Range(link) \subseteq Range(LowerCase) \cup Range(Digits) \cup {"-"}

\* C6 as amended: the underscore is kept too (it is a \w character), so the
\* slug holds only lowercase letters, digits, underscores and hyphens
C6_SlugKeepsUnderscore ==
    pc = "link_done" =>
        /\ link = SlugByRule(header_text, {"_"})
        /\ Range(link) \subseteq Range(LowerCase) \cup Range(Digits) \cup {"_", "-"}

\* a text with an underscore, a deleted character and an upper-case letter
C6_Witness ==
    /\ pc = "link_done"
    /\ "_" \in Range(header_text) /\ "_" \in Range(link)
    /\ Range(header_text) \cap {"&", "!"} # {}
    /\ Range(header_text) \cap Range(UpperCase) # {}

(***************************************************************************)
(* C7  Flat numbered style: the k-th depth-0 entry is rendered with the    *)
(* ordinal k; depth-1 entries are bullets and consume no ordinal.          *)
(***************************************************************************)
TocEntryLines == Tail(split(toc_lines))
Ordinal(k) == Cardinality({j \in 1..k : headers[j][1] = 0})

C7_OrdinalsWithoutGaps ==
    (pc = "generated" /\ EffectiveConfig["indent_style"] = "github") =>
        \A k \in DOMAIN headers :
            IF headers[k][1] = 0
            THEN startswith(TocEntryLines[k], str(Ordinal(k)) \o <<".", " ", "[">>)
            ELSE startswith(TocEntryLines[k], <<" ", " ", " ", "-", " ", "[">>)

(***************************************************************************)
(* C8  A configuration option is never fatal in a CLI run: with a readable *)
(* input file the run reaches generation and writes its output, with the   *)
(* default settings when the configuration file cannot be loaded.          *)
(***************************************************************************)
C8_ConfigNeverFatal ==
    (/\ pc = "exited"
     /\ args.config.kind = "str"
     /\ markdown_content # Idle
     /\ ~generate_toc_run(markdown_content, default_config).raised
     /\ fs.output_writable)
    => /\ exit_code = 0
       /\ written # Idle
       /\ fs.config_file # "present" =>
             written.text = generate_toc_run(markdown_content, default_config).value

(***************************************************************************)
(* C9  Without a title line the TOC is inserted at the very top: the TOC   *)
(* heading precedes every non-blank line of the document, and every        *)
(* configured-level header of the document is listed.                      *)
(***************************************************************************)
HasTitle == \E i \in DOMAIN InputLines : is_h1(InputLines[i])

TocHeadingIndex ==
    Min({i \in DOMAIN OutputLines : OutputLines[i] = EffectiveConfig["toc_title"]})

C9_NoTitleTocAtTop ==
    (pc = "generated" /\ ~HasTitle) =>
        /\ \A i \in 1..(TocHeadingIndex - 1) : IsBlank(OutputLines[i])
        /\ \A i \in DOMAIN InputLines :
              (IsEntryLine(InputLines[i], 2) \/ IsEntryLine(InputLines[i], 3)) =>
                  \E k \in DOMAIN headers : headers[k][3] = header_group2(InputLines[i])

(***************************************************************************)
(* C10  No section heading is deleted: the header lines of the input other *)
(* than reserved TOC headings are all in the output, in the same order,    *)
(* and every TOC entry refers to a header line of the output.              *)
(***************************************************************************)
C10_HeadingsKept ==
    pc = "generated" =>
        /\ IsSubsequence(SelectSeq(InputLines, IsSection), OutputLines)
        /\ \A k \in DOMAIN headers :
              \E i \in DOMAIN OutputLines :
                  /\ IsSection(OutputLines[i])
                  /\ header_group2(OutputLines[i]) = headers[k][3]

====
